---- MODULE Spec2Model ----
(***************************************************************************)
(* State-machine model of the NewEdu API (api.newedu.uz).                  *)
(*                                                                         *)
(* The relational store is modelled as one set of rows per table.  Every   *)
(* HTTP handler is an action; a handler whose check-then-insert can be     *)
(* interleaved with another request is split at the point where it has     *)
(* read the store and has not yet committed.                               *)
(*                                                                         *)
(* The endpoint modules and the ORM classes name some columns differently  *)
(* (User.user_type / User.user_type_id, AppRequest.user_id /               *)
(* AppRequest.from_user_id, UserApp.user_id / UserApp.user_devices_id).    *)
(* The model follows the handlers: a row has the columns the handler       *)
(* reads and writes, the constraints are those the ORM classes declare.    *)
(***************************************************************************)
EXTENDS Integers, FiniteSets, Sequences, TLC

(***************************************************************************)
(* Bounds of the model                                                     *)
(***************************************************************************)
MaxRegCalls == 3

MaxUsers == 2

MaxTicks == 2

MaxSchools == 1

MaxDevices == 1

MaxLogs == 2

MaxReqCalls == 2

MaxInstCalls == 2

MaxPrefCalls == 2

\* App rows in a provisioned catalog
MaxCatalog == 2

\* steps of the clock of the OTP flow
MaxOtpTicks == 2

\* accounts the OTP flow creates
MaxAccounts == 2

(***************************************************************************)
(* Program constants                                                       *)
(***************************************************************************)
\* config.py: ACCESS_TOKEN_EXPIRE_MINUTES = 60 * 24 * 14
ACCESS_TOKEN_EXPIRE_MINUTES == 20160

\* config.py: SECRET_KEY
SECRET_KEY == "your-secret-key-for-dev-only"

(***************************************************************************)
(* Inputs                                                                  *)
(***************************************************************************)
None == "None"

\* None where the value is otherwise a number: a missing "exp" claim or
\* expires_delta=None, and a missing "type" claim
NoTime == -1

NoType == 0

Phones == {"+998900000001", "+998900000002"}

Usernames == {None, "alisher"}

Passwords == {"parol123", "parol456"}

\* rows of the user_type table: id -> name
UserTypeName == [i \in {1, 2, 3} |-> CASE i = 1 -> "student" [] i = 2 -> "parent" [] OTHER -> "admin"]

UserTypeIds == DOMAIN UserTypeName

RegCalls == 1..MaxRegCalls

ReqCalls == 1..MaxReqCalls

InstCalls == 1..MaxInstCalls

PrefCalls == 1..MaxPrefCalls

\* rows of the os and action tables; no handler inserts into them
OsIds == {1}

ActionIds == {1}

VARIABLES
    users,        \* table "user": rows [id, phone_number, user_type_id, username, password_hash]
    regCall,      \* register_user requests in flight: call -> [pc, arguments, result, detail]
    clock,        \* datetime.utcnow(), in minutes
    held,         \* the access token most recently handed out, with how it was made
    resp,         \* the response of the request served by the last step
    studentInfo,  \* table "student_info": rows [id, user_id, school, father, mother]
    parentInfo,   \* table "parent_info": rows [id, user_id, address]
    regions,      \* table "regions": rows [id, name]
    cities,       \* table "cities": rows [id, name, parent_region]
    districts,    \* table "districts": rows [id, name, parent_region]
    schools,      \* table "schools": rows [id, region_id, city_id, district_id]
    apps,         \* table "app": rows [id, package_name, name, general_type]
    userApps,     \* table "user_apps": rows [id, user_id, app_id, is_active]
    devices,      \* table "device": rows [id, os_id]
    userDevices,  \* table "user_devices": rows [id, user_id, device_id, is_active]
    setups,       \* table "setup": rows [id, user_id, device_id]
    logs,         \* table "log": rows [id, user_id, device_id, app_id, action_id]
    appRequests,  \* table "app_request": rows [id, user_id, app_id, status]
    appRequestLogs, \* table "app_requests_log"
    reqCall,      \* request_app_approval requests in flight
    instCall,     \* register_installed_app requests in flight
    userPreferences, \* table "user_preferences": rows [id, user_id, language]
    prefCall,     \* update_user_preferences / create_user_preferences requests in flight
    websites,     \* table "website": rows [id, url, name]
    policies,     \* table "policy": rows [id, is_whitelist_app, targeted_user_type_id]
    policyApps,   \* table "policy_app": rows [id, policy_id, app_id]
    otp_store,    \* main.py otp_store: phone_number -> (otp, timestamp, registration_data)
    accounts,     \* main.py table "users": rows [id, phone_number, username, password_hash]
    otpTime,      \* time.time() of main.py, in seconds
    otpVerified   \* history: phone_number -> verify_otp has succeeded since the last register

tokenVars == <<clock, held>>

profileVars == <<studentInfo, parentInfo>>

schoolVars == <<regions, cities, districts, schools>>

appVars == <<apps, userApps>>

deviceVars == <<devices, userDevices, setups, logs>>

requestVars == <<appRequests, appRequestLogs, reqCall>>

preferenceVars == <<userPreferences, prefCall>>

catalogVars == <<websites, policies, policyApps>>

otpVars == <<otp_store, accounts, otpTime, otpVerified>>

sideVars == <<instCall, preferenceVars, catalogVars, otpVars>>

usageVars == <<appVars, deviceVars, requestVars, sideVars>>

vars == <<users, regCall, clock, held, resp, studentInfo, parentInfo,
          regions, cities, districts, schools, apps, userApps, devices, userDevices,
          setups, logs, appRequests, appRequestLogs, reqCall, instCall,
          userPreferences, prefCall, websites, policies, policyApps,
          otp_store, accounts, otpTime, otpVerified>>

(***************************************************************************)
(* Storage helpers                                                         *)
(***************************************************************************)
MaxOf(S) == CHOOSE m \in S : \A x \in S : x <= m

\* primary key handed out to the next row of a table
NextId(rows) == IF rows = {} THEN 1 ELSE 1 + MaxOf({r.id : r \in rows})

user_phone_type_unique_missing(rows, row) == TRUE

\* Index('user_phone_type_unique', 'phone_number', 'user_type_id', unique=True)
user_phone_type_unique(rows, row) ==
    \A u \in rows : ~(u.phone_number = row.phone_number /\ u.user_type_id = row.user_type_id)

\* username = Column(String, unique=True); NULL never collides
username_unique(rows, row) ==
    row.username = None \/ \A u \in rows : u.username # row.username

IdleCall ==
    [pc |-> "idle", phone_number |-> None, user_type_id |-> 0, username |-> None,
     password |-> None, result |-> None, detail |-> None]

NoResp == [op |-> None]

\* main.py: no entry of otp_store for the phone
NoOtp == [otp |-> None, timestamp |-> NoTime, reg_data |-> None]

IdleRequest == [pc |-> "idle", user_id |-> 0, app_id |-> 0, result |-> None, request_id |-> 0]

NoToken == [by |-> None]

IdleInstall == [pc |-> "idle", user_id |-> 0, package_name |-> None, name |-> None,
                general_type |-> None, app_found |-> 0, user_app_found |-> 0,
                result |-> None, app_id |-> 0, user_app_id |-> 0]

IdlePreference == [pc |-> "idle", op |-> None, user_id |-> 0, language |-> None,
                   found |-> 0, result |-> None]

(***************************************************************************)
(* security.py                                                             *)
(***************************************************************************)
\* pwd_context.hash: salted one-way digest
hash_password(password) == <<"bcrypt", password>>

\* pwd_context.verify
verify_password(plain_password, hashed_password) ==
    hashed_password = <<"bcrypt", plain_password>>

\* str(id) and int(sub) on the ids the model uses
Digits == <<"1", "2", "3", "4">>

ToStr(i) == Digits[i]

IsNumeric(s) == \E i \in DOMAIN Digits : Digits[i] = s

ParseInt(s) == CHOOSE i \in DOMAIN Digits : Digits[i] = s

\* bool(expires_delta): None and timedelta(0) are both falsy
Truthy(expires_delta) == expires_delta # NoTime /\ expires_delta # 0

\* a "sub" value as the caller passes it: an int, a str, or no such key
IntSub(i) == [kind |-> "int", int |-> i, str |-> None]

StrSub(s) == [kind |-> "str", int |-> 0, str |-> s]

\* lines 28-44: the signed token; data is [sub, type]
create_access_token(data, expires_delta, now) ==
    LET sub == IF data.sub.kind = "int" THEN ToStr(data.sub.int) ELSE data.sub.str
        expire == IF Truthy(expires_delta)
                  THEN now + expires_delta
                  ELSE now + ACCESS_TOKEN_EXPIRE_MINUTES
    IN [sub |-> sub, type |-> data.type, exp |-> expire, key |-> SECRET_KEY]

Unauthorized == [status |-> "401"]

\* jwt.decode(token, SECRET_KEY, algorithms=[ALGORITHM]): the signature must
\* verify; exp is validated only when the payload carries one
JwtDecodes(token, now) ==
    /\ token.key = SECRET_KEY
    /\ token.exp # NoTime => token.exp > now

UserMatches_NoRole(user, user_type) == TRUE

\* line 93: user is None or user.user_type != user_type
UserMatches(user, user_type) == user.user_type_id = user_type

\* lines 47-97
get_current_user(token, now) ==
    IF ~JwtDecodes(token, now) THEN Unauthorized
    ELSE IF token.sub = None \/ token.type = NoType THEN Unauthorized
    ELSE IF ~IsNumeric(token.sub) THEN Unauthorized
    ELSE LET found == {u \in users : u.id = ParseInt(token.sub)}
         IN IF found = {} THEN Unauthorized
            ELSE LET user == CHOOSE u \in found : TRUE
                 IN IF ~UserMatches(user, token.type) THEN Unauthorized
                    ELSE [status |-> "200", user |-> user.id]

(***************************************************************************)
(* register.py: register_user                                              *)
(***************************************************************************)
\* db.query(User).filter(phone_number == .., user_type_id == ..).first()
ExistingUser(phone, role) ==
    {u \in users : u.phone_number = phone /\ u.user_type_id = role}

\* lines 18-27: the existence check; 400 when a row is found
RegisterUserCheck(c, phone, role, uname, pw) ==
    /\ regCall[c].pc = "idle"
    /\ LET req == [phone_number |-> phone, user_type_id |-> role, username |-> uname,
                   password |-> pw]
       IN IF ExistingUser(phone, role) # {}
          THEN regCall' = [regCall EXCEPT ![c] =
                   req @@ [pc |-> "done", result |-> "400", detail |-> "already registered"]]
          ELSE regCall' = [regCall EXCEPT ![c] =
                   req @@ [pc |-> "checked", result |-> None, detail |-> None]]
    /\ UNCHANGED <<users, clock, held, resp, profileVars, schoolVars, usageVars>>

\* the row db.add(new_user) inserts
NewUserRow(phone, role, uname, pw) ==
    [id |-> NextId(users), phone_number |-> phone, user_type_id |-> role,
     username |-> uname, password_hash |-> hash_password(pw)]

\* lines 41-48: the token data carries "user_type_id", not "type"
RegisterToken(user) ==
    [by |-> "register_user", expires_delta |-> ACCESS_TOKEN_EXPIRE_MINUTES,
     token |-> create_access_token([sub |-> StrSub(ToStr(user.id)), type |-> NoType],
                                   ACCESS_TOKEN_EXPIRE_MINUTES, clock)]

\* db.commit() of the new row: the unique indexes decide
UserInsertAllowed(row) ==
    user_phone_type_unique(users, row) /\ username_unique(users, row)

\* lines 29-62: insert and commit; IntegrityError -> rollback, 400
RegisterUserCommit(c) ==
    /\ regCall[c].pc = "checked"
    /\ LET new_user == NewUserRow(regCall[c].phone_number, regCall[c].user_type_id,
                                  regCall[c].username, regCall[c].password)
       IN IF UserInsertAllowed(new_user)
          THEN /\ users' = users \cup {new_user}
               /\ held' = RegisterToken(new_user)
               /\ regCall' = [regCall EXCEPT ![c].pc = "done", ![c].result = "201"]
          ELSE /\ UNCHANGED <<users, held>>
               /\ regCall' = [regCall EXCEPT ![c].pc = "done", ![c].result = "400",
                                             ![c].detail = "database constraint"]
    /\ UNCHANGED <<clock, resp, profileVars, schoolVars, usageVars>>

\* lines 63-68: any other exception of the store -> rollback, 500
RegisterUserFail(c) ==
    /\ regCall[c].pc = "checked"
    /\ regCall' = [regCall EXCEPT ![c].pc = "done", ![c].result = "500"]
    /\ UNCHANGED <<users, clock, held, resp, profileVars, schoolVars, usageVars>>

\* register_user served without interleaving: lines 14-68 in one step
RegisterUser(phone, role, uname, pw) ==
    /\ Cardinality(users) < MaxUsers
    /\ LET new_user == NewUserRow(phone, role, uname, pw)
       IN IF ExistingUser(phone, role) # {}
          THEN /\ resp' = [op |-> "register_user", status |-> "400",
                           detail |-> "already registered"]
               /\ UNCHANGED <<users, held>>
          ELSE IF UserInsertAllowed(new_user)
          THEN /\ users' = users \cup {new_user}
               /\ held' = RegisterToken(new_user)
               /\ resp' = [op |-> "register_user", status |-> "201", detail |-> None]
          ELSE /\ resp' = [op |-> "register_user", status |-> "400",
                           detail |-> "database constraint"]
               /\ UNCHANGED <<users, held>>
    /\ UNCHANGED <<regCall, clock, profileVars, schoolVars, usageVars>>

Rollback_KeepsFlushed(committed, flushed) == flushed

\* db.rollback(), and db.close() of get_db for an exception nobody caught:
\* the rows the session has flushed and not committed are gone
Rollback(committed, flushed) == committed

\* Response of a handler served in one step
Response(op, status) == [op |-> op, status |-> status]

\* the UserType row of a user: db.query(UserType).filter(UserType.id == user_type_id)
RoleName(user) ==
    IF user.user_type_id \in UserTypeIds THEN UserTypeName[user.user_type_id] ELSE None

Ids(rows) == {r.id : r \in rows}

(***************************************************************************)
(* register.py: create_student_info, create_parent_info                    *)
(***************************************************************************)
\* foreign keys of student_info: school (NOT NULL), father, mother; 0 is NULL
StudentInfoForeignKeys(row) ==
    /\ row.school \in Ids(schools)
    /\ row.father = 0 \/ row.father \in Ids(users)
    /\ row.mother = 0 \/ row.mother \in Ids(users)

\* lines 71-123; the endpoint takes no token
CreateStudentInfo(user_id, school, father, mother) ==
    /\ LET row == [id |-> NextId(studentInfo), user_id |-> user_id, school |-> school,
                   father |-> father, mother |-> mother]
       IN IF user_id \notin Ids(users)
          THEN /\ resp' = Response("create_student_info", "404")
               /\ UNCHANGED studentInfo
          ELSE IF \E si \in studentInfo : si.user_id = user_id
          THEN /\ resp' = Response("create_student_info", "400")
               /\ UNCHANGED studentInfo
          ELSE IF StudentInfoForeignKeys(row)
          THEN /\ studentInfo' = studentInfo \cup {row}
               /\ resp' = Response("create_student_info", "201")
          ELSE /\ resp' = Response("create_student_info", "400")
               /\ UNCHANGED studentInfo
    /\ UNCHANGED <<users, regCall, clock, held, parentInfo, schoolVars, usageVars>>

\* lines 126-175; the endpoint takes no token
CreateParentInfo(user_id) ==
    /\ IF user_id \notin Ids(users)
       THEN /\ resp' = Response("create_parent_info", "404")
            /\ UNCHANGED parentInfo
       ELSE IF \E pi \in parentInfo : pi.user_id = user_id
       THEN /\ resp' = Response("create_parent_info", "400")
            /\ UNCHANGED parentInfo
       ELSE /\ parentInfo' = parentInfo \cup {[id |-> NextId(parentInfo), user_id |-> user_id,
                                                address |-> None]}
            /\ resp' = Response("create_parent_info", "201")
    /\ UNCHANGED <<users, regCall, clock, held, studentInfo, schoolVars, usageVars>>

(***************************************************************************)
(* locations.py, schools.py: the rows a school refers to                   *)
(***************************************************************************)
\* locations.py lines 121-150
CreateRegion(caller, name) ==
    /\ caller \in users
    /\ IF RoleName(caller) # "admin"
       THEN /\ resp' = Response("create_region", "403")
            /\ UNCHANGED regions
       ELSE IF \E r \in regions : r.name = name
       THEN /\ resp' = Response("create_region", "400")
            /\ UNCHANGED regions
       ELSE /\ regions' = regions \cup {[id |-> NextId(regions), name |-> name]}
            /\ resp' = Response("create_region", "201")
    /\ UNCHANGED <<users, regCall, clock, held, profileVars, cities, districts, schools, usageVars>>

\* locations.py lines 153-189
CreateCity(caller, name, parent_region) ==
    /\ caller \in users
    /\ IF RoleName(caller) # "admin"
       THEN /\ resp' = Response("create_city", "403")
            /\ UNCHANGED cities
       ELSE IF parent_region \notin Ids(regions)
       THEN /\ resp' = Response("create_city", "404")
            /\ UNCHANGED cities
       ELSE IF \E r \in cities : r.name = name
       THEN /\ resp' = Response("create_city", "400")
            /\ UNCHANGED cities
       ELSE /\ cities' = cities \cup {[id |-> NextId(cities), name |-> name,
                                        parent_region |-> parent_region]}
            /\ resp' = Response("create_city", "201")
    /\ UNCHANGED <<users, regCall, clock, held, profileVars, regions, districts, schools, usageVars>>

\* locations.py lines 192-228
CreateDistrict(caller, name, parent_region) ==
    /\ caller \in users
    /\ IF RoleName(caller) # "admin"
       THEN /\ resp' = Response("create_district", "403")
            /\ UNCHANGED districts
       ELSE IF parent_region \notin Ids(regions)
       THEN /\ resp' = Response("create_district", "404")
            /\ UNCHANGED districts
       ELSE IF \E r \in districts : r.name = name
       THEN /\ resp' = Response("create_district", "400")
            /\ UNCHANGED districts
       ELSE /\ districts' = districts \cup {[id |-> NextId(districts), name |-> name,
                                              parent_region |-> parent_region]}
            /\ resp' = Response("create_district", "201")
    /\ UNCHANGED <<users, regCall, clock, held, profileVars, regions, cities, schools, usageVars>>

\* schools.py lines 200-269
CreateSchool(caller, region_id, city_id, district_id) ==
    /\ caller \in users
    /\ Cardinality(schools) < MaxSchools
    /\ IF RoleName(caller) # "admin"
       THEN /\ resp' = Response("create_school", "403")
            /\ UNCHANGED schools
       ELSE IF region_id \notin Ids(regions) \/ city_id \notin Ids(cities)
               \/ district_id \notin Ids(districts)
       THEN /\ resp' = Response("create_school", "404")
            /\ UNCHANGED schools
       ELSE /\ schools' = schools \cup {[id |-> NextId(schools), region_id |-> region_id,
                                          city_id |-> city_id, district_id |-> district_id]}
            /\ resp' = Response("create_school", "200")
    /\ UNCHANGED <<users, regCall, clock, held, profileVars, regions, cities, districts, usageVars>>

(***************************************************************************)
(* apps.py: register_installed_app, uninstall_app                          *)
(***************************************************************************)
ExistingUserApp_Never(user_id, app_id) == {}

\* db.query(UserApp).filter(user_id == current_user.id, app_id == app_id)
ExistingUserApp(user_id, app_id) ==
    {ua \in userApps : ua.user_id = user_id /\ ua.app_id = app_id}

\* db.query(App).filter(App.package_name == package_name)
ExistingApp(package_name) == {a \in apps : a.package_name = package_name}

\* .first() of a query result whose rows the caller found non-empty
First(rows) == CHOOSE r \in rows : \A q \in rows : r.id <= q.id

(***************************************************************************)
(* student_profile.py: update_student_info;                                *)
(* parent_profile.py: update_parent_profile                                *)
(***************************************************************************)
\* student_profile.py lines 60-107: the caller's own row; school = 0 and
\* father = 0 are fields the request leaves out
UpdateStudentInfo(caller, school, father) ==
    /\ caller \in users
    /\ LET answer(status) == [op |-> "update_student_info", status |-> status,
                              caller |-> caller.id]
           found == {si \in studentInfo : si.user_id = caller.id}
       IN IF RoleName(caller) # "student"
          THEN /\ resp' = answer("403")
               /\ UNCHANGED studentInfo
          ELSE IF found = {}
          THEN /\ resp' = answer("404")
               /\ UNCHANGED studentInfo
          ELSE LET student_info == First(found)
                   updated == [student_info EXCEPT
                                  !.school = IF school # 0 THEN school ELSE @,
                                  !.father = IF father # 0 THEN father ELSE @]
               IN IF StudentInfoForeignKeys(updated)
                  THEN /\ studentInfo' = (studentInfo \ {student_info}) \cup {updated}
                       /\ resp' = answer("200")
                  ELSE /\ resp' = answer("500")
                       /\ studentInfo' = Rollback(studentInfo, studentInfo)
    /\ UNCHANGED <<users, regCall, clock, held, parentInfo, schoolVars, usageVars>>

\* parent_profile.py lines 72-121: the caller's own row
UpdateParentProfile(caller, address) ==
    /\ caller \in users
    /\ LET answer(status) == [op |-> "update_parent_profile", status |-> status,
                              caller |-> caller.id]
           found == {pi \in parentInfo : pi.user_id = caller.id}
       IN IF RoleName(caller) # "parent"
          THEN /\ resp' = answer("403")
               /\ UNCHANGED parentInfo
          ELSE IF found = {}
          THEN /\ resp' = answer("404")
               /\ UNCHANGED parentInfo
          ELSE LET parent_info == First(found)
               IN /\ parentInfo' = (parentInfo \ {parent_info}) \cup
                          {[parent_info EXCEPT
                               !.address = IF address # None THEN address ELSE @]}
                  /\ resp' = answer("200")
    /\ UNCHANGED <<users, regCall, clock, held, studentInfo, schoolVars, usageVars>>


\* lines 156-221 served in one step; fails is a storage failure at commit
RegisterInstalledApp(caller, package_name, name, general_type, fails) ==
    /\ caller \in users
    /\ LET existing_app == ExistingApp(package_name)
           new_app == [id |-> NextId(apps), package_name |-> package_name, name |-> name,
                       general_type |-> general_type]
           app_id == IF existing_app # {} THEN First(existing_app).id ELSE new_app.id
           flushed == IF existing_app # {} THEN apps ELSE apps \cup {new_app}
           existing_user_app == ExistingUserApp(caller.id, app_id)
           new_user_app == [id |-> NextId(userApps), user_id |-> caller.id, app_id |-> app_id,
                            is_active |-> TRUE]
       IN IF existing_user_app # {}
          THEN LET row == First(existing_user_app)
               IN /\ userApps' = (userApps \ {row}) \cup {[row EXCEPT !.is_active = TRUE]}
                  /\ apps' = flushed
                  /\ resp' = [op |-> "register_installed_app", status |-> "200",
                              caller |-> caller.id, app_id |-> app_id,
                              user_app_id |-> row.id,
                              message |-> "App installation updated",
                              reactivated |-> ~row.is_active]
          ELSE IF fails
          THEN /\ resp' = [op |-> "register_installed_app", status |-> "500",
                           caller |-> caller.id, app_id |-> 0, user_app_id |-> 0,
                           message |-> None, reactivated |-> FALSE]
               /\ apps' = Rollback(apps, flushed)
               /\ userApps' = Rollback(userApps, userApps)
          ELSE /\ userApps' = userApps \cup {new_user_app}
               /\ apps' = flushed
               /\ resp' = [op |-> "register_installed_app", status |-> "200",
                           caller |-> caller.id, app_id |-> app_id,
                           user_app_id |-> new_user_app.id,
                           message |-> "App installation registered successfully",
                           reactivated |-> FALSE]
    /\ UNCHANGED <<users, regCall, clock, held, profileVars, schoolVars, deviceVars,
                   requestVars,
                   sideVars>>

app_package_unique_missing(rows, row) == TRUE

\* user.py line 67: App.package is unique
app_package_unique(rows, row) ==
    \A a \in rows : a.package_name # row.package_name

\* the App row lines 172-178 build
NewApp(package_name, name, general_type) ==
    [id |-> NextId(apps), package_name |-> package_name, name |-> name,
     general_type |-> general_type]

\* lines 164-187: the handler has read the catalog and the caller's UserApp
\* rows; what it goes on to write is not yet committed
RegisterInstalledAppCheck(c, caller, package_name, name, general_type) ==
    /\ caller \in users
    /\ instCall[c].pc = "idle"
    /\ LET existing_app == ExistingApp(package_name)
           app_found == IF existing_app # {} THEN First(existing_app).id ELSE 0
           existing_user_app == ExistingUserApp(caller.id, app_found)
       IN instCall' = [instCall EXCEPT ![c] =
              [IdleInstall EXCEPT !.pc = "checked", !.user_id = caller.id,
                                  !.package_name = package_name, !.name = name,
                                  !.general_type = general_type, !.app_found = app_found,
                                  !.user_app_found = IF existing_user_app # {}
                                                     THEN First(existing_user_app).id
                                                     ELSE 0]]
    /\ UNCHANGED <<users, regCall, clock, held, resp, profileVars, schoolVars, appVars,
                   deviceVars, requestVars, preferenceVars, catalogVars, otpVars>>

\* lines 172-214: the new App row is flushed, the UserApp row is switched on
\* or inserted, and the transaction commits; a second App row of the package
\* is refused by the unique column (the flush at line 180 is outside the try:
\* the request ends with 500)
RegisterInstalledAppCommit(c) ==
    /\ instCall[c].pc = "checked"
    /\ LET call == instCall[c]
           new_app == NewApp(call.package_name, call.name, call.general_type)
           app_id == IF call.app_found # 0 THEN call.app_found ELSE new_app.id
           flushed == IF call.app_found # 0 THEN apps ELSE apps \cup {new_app}
           new_user_app == [id |-> NextId(userApps), user_id |-> call.user_id,
                            app_id |-> app_id, is_active |-> TRUE]
       IN IF call.app_found = 0 /\ ~app_package_unique(apps, new_app)
          THEN /\ instCall' = [instCall EXCEPT ![c].pc = "done", ![c].result = "500"]
               /\ UNCHANGED <<apps, userApps>>
          ELSE IF call.user_app_found # 0
          THEN /\ userApps' = {IF ua.id = call.user_app_found
                                THEN [ua EXCEPT !.is_active = TRUE] ELSE ua : ua \in userApps}
               /\ apps' = flushed
               /\ instCall' = [instCall EXCEPT ![c].pc = "done", ![c].result = "200",
                                               ![c].app_id = app_id,
                                               ![c].user_app_id = call.user_app_found]
          ELSE /\ userApps' = userApps \cup {new_user_app}
               /\ apps' = flushed
               /\ instCall' = [instCall EXCEPT ![c].pc = "done", ![c].result = "200",
                                               ![c].app_id = app_id,
                                               ![c].user_app_id = new_user_app.id]
    /\ UNCHANGED <<users, regCall, clock, held, resp, profileVars, schoolVars,
                   deviceVars, requestVars, preferenceVars, catalogVars, otpVars>>

\* lines 215-220 and get_db: the store fails, the transaction is rolled back
RegisterInstalledAppFail(c) ==
    /\ instCall[c].pc = "checked"
    /\ instCall' = [instCall EXCEPT ![c].pc = "done", ![c].result = "500"]
    /\ UNCHANGED <<users, regCall, clock, held, resp, profileVars, schoolVars, appVars,
                   deviceVars, requestVars, preferenceVars, catalogVars, otpVars>>

\* lines 348-375 with the row looked up by app_id alone
UninstallApp_AnyOwner(caller, app_id) ==
    /\ caller \in users
    /\ LET user_app == {ua \in userApps : ua.app_id = app_id}
       IN IF user_app = {}
          THEN /\ resp' = [op |-> "uninstall_app", status |-> "404", caller |-> caller.id,
                           app_id |-> app_id]
               /\ UNCHANGED userApps
          ELSE LET row == First(user_app)
               IN /\ userApps' = (userApps \ {row}) \cup {[row EXCEPT !.is_active = FALSE]}
                  /\ resp' = [op |-> "uninstall_app", status |-> "200",
                              caller |-> caller.id, app_id |-> app_id]
    /\ UNCHANGED <<users, regCall, clock, held, profileVars, schoolVars, apps, deviceVars,
                   requestVars,
                   sideVars>>

\* lines 348-375 with the row deleted
UninstallApp_DeletesRow(caller, app_id) ==
    /\ caller \in users
    /\ LET user_app == ExistingUserApp(caller.id, app_id)
       IN IF user_app = {}
          THEN /\ resp' = [op |-> "uninstall_app", status |-> "404", caller |-> caller.id,
                           app_id |-> app_id]
               /\ UNCHANGED userApps
          ELSE /\ userApps' = userApps \ {First(user_app)}
               /\ resp' = [op |-> "uninstall_app", status |-> "200",
                           caller |-> caller.id, app_id |-> app_id]
    /\ UNCHANGED <<users, regCall, clock, held, profileVars, schoolVars, apps, deviceVars,
                   requestVars,
                   sideVars>>

\* lines 348-375
UninstallApp(caller, app_id) ==
    /\ caller \in users
    /\ LET user_app == ExistingUserApp(caller.id, app_id)
       IN IF user_app = {}
          THEN /\ resp' = [op |-> "uninstall_app", status |-> "404", caller |-> caller.id,
                           app_id |-> app_id]
               /\ UNCHANGED userApps
          ELSE LET row == First(user_app)
               IN /\ userApps' = (userApps \ {row}) \cup {[row EXCEPT !.is_active = FALSE]}
                  /\ resp' = [op |-> "uninstall_app", status |-> "200",
                              caller |-> caller.id, app_id |-> app_id]
    /\ UNCHANGED <<users, regCall, clock, held, profileVars, schoolVars, apps, deviceVars,
                   requestVars,
                   sideVars>>

(***************************************************************************)
(* apps.py: request_app_approval                                           *)
(***************************************************************************)
\* lines 241-245: the pending requests of the caller for the app
PendingRequest(user_id, app_id) ==
    {r \in appRequests : r.user_id = user_id /\ r.app_id = app_id /\ r.status = "pending"}

NewAppRequest_Approved(user_id, app_id) ==
    [id |-> NextId(appRequests), user_id |-> user_id, app_id |-> app_id,
     status |-> "approved"]

\* lines 255-260: the row db.add(new_request) inserts
NewAppRequest(user_id, app_id) ==
    [id |-> NextId(appRequests), user_id |-> user_id, app_id |-> app_id,
     status |-> "pending"]

\* lines 232-251: 404 without the app, 400 with a pending request
RequestAppApprovalCheck(c, caller, app_id) ==
    /\ caller \in users
    /\ reqCall[c].pc = "idle"
    /\ LET req == [user_id |-> caller.id, app_id |-> app_id, request_id |-> 0]
       IN IF app_id \notin Ids(apps)
          THEN reqCall' = [reqCall EXCEPT ![c] = req @@ [pc |-> "done", result |-> "404"]]
          ELSE IF PendingRequest(caller.id, app_id) # {}
          THEN reqCall' = [reqCall EXCEPT ![c] = req @@ [pc |-> "done", result |-> "400"]]
          ELSE reqCall' = [reqCall EXCEPT ![c] = req @@ [pc |-> "checked", result |-> None]]
    /\ UNCHANGED <<users, regCall, clock, held, resp, profileVars, schoolVars, appVars,
                   deviceVars, appRequests, appRequestLogs,
                   sideVars>>

\* lines 253-272: insert and commit; no constraint of the table can refuse
RequestAppApprovalCommit(c) ==
    /\ reqCall[c].pc = "checked"
    /\ LET new_request == NewAppRequest(reqCall[c].user_id, reqCall[c].app_id)
       IN /\ appRequests' = appRequests \cup {new_request}
          /\ reqCall' = [reqCall EXCEPT ![c].pc = "done", ![c].result = "200",
                                        ![c].request_id = new_request.id]
    /\ UNCHANGED <<users, regCall, clock, held, resp, profileVars, schoolVars, appVars,
                   deviceVars, appRequestLogs,
                   sideVars>>

\* lines 273-278: an exception of the store -> rollback, 500
RequestAppApprovalFail(c) ==
    /\ reqCall[c].pc = "checked"
    /\ reqCall' = [reqCall EXCEPT ![c].pc = "done", ![c].result = "500"]
    /\ UNCHANGED <<users, regCall, clock, held, resp, profileVars, schoolVars, appVars,
                   deviceVars, appRequests, appRequestLogs,
                   sideVars>>

(***************************************************************************)
(* Approval workflow: the admin review of a request.  No handler of the    *)
(* endpoint modules changes AppRequest.status or inserts an AppRequestLog  *)
(* row; the transition follows the approval workflow of the design         *)
(* (states pending -> approved | denied, admin only, one audit row).       *)
(***************************************************************************)
ReviewLogRow_NewStatusTwice(request, new_status, admin) ==
    [id |-> NextId(appRequestLogs), app_request_id |-> request.id,
     status_was |-> new_status, status_changed_to |-> new_status,
     responsible_admin_id |-> admin.id]

\* the audit row of a transition (app_request.py lines 27-41)
ReviewLogRow(request, new_status, admin) ==
    [id |-> NextId(appRequestLogs), app_request_id |-> request.id,
     status_was |-> request.status, status_changed_to |-> new_status,
     responsible_admin_id |-> admin.id]

ReviewAppRequest(caller, request_id, new_status) ==
    /\ caller \in users
    /\ new_status \in {"approved", "denied"}
    /\ LET found == {r \in appRequests : r.id = request_id}
           answer(status) == [op |-> "review_app_request", status |-> status,
                              caller |-> caller.id, request_id |-> request_id]
       IN IF RoleName(caller) # "admin"
          THEN /\ resp' = answer("403")
               /\ UNCHANGED <<appRequests, appRequestLogs>>
          ELSE IF found = {}
          THEN /\ resp' = answer("404")
               /\ UNCHANGED <<appRequests, appRequestLogs>>
          ELSE LET request == First(found)
               IN IF request.status # "pending"
                  THEN /\ resp' = answer("400")
                       /\ UNCHANGED <<appRequests, appRequestLogs>>
                  ELSE /\ appRequests' = (appRequests \ {request}) \cup
                                             {[request EXCEPT !.status = new_status]}
                       /\ appRequestLogs' = appRequestLogs \cup
                                                {ReviewLogRow(request, new_status, caller)}
                       /\ resp' = answer("200")
    /\ UNCHANGED <<users, regCall, clock, held, profileVars, schoolVars, appVars,
                   deviceVars, reqCall,
                   sideVars>>

(***************************************************************************)
(* apps.py: get_apps; websites.py: create_website                          *)
(***************************************************************************)
\* apps.py lines 48-118 without filters: every App row, to any caller with a
\* valid token
GetApps(caller) ==
    /\ caller \in users
    /\ resp' = [op |-> "get_apps", status |-> "200", caller |-> caller.id,
                rows |-> Ids(apps)]
    /\ UNCHANGED <<users, regCall, clock, held, profileVars, schoolVars, usageVars>>

(***************************************************************************)
(* blocking.py: get_blocked_apps                                           *)
(***************************************************************************)
\* line 90: db.query(App).limit(10)
BlockedAppsLimit == 10

\* line 90: the first rows of the table in primary-key order
LimitRows(rows, n) == {r \in rows : Cardinality({q \in rows : q.id < r.id}) < n}

\* lines 101-103 with the flag lifted by any request for the app
is_blocked_UnlessRequested(app) ==
    app.general_type = "Social" /\ ~\E r \in appRequests : r.app_id = app.id

\* lines 101-103: the flag depends on the app's general type alone
is_blocked(app) == app.general_type = "Social"

\* lines 90-112: one entry per listed app
BlockedApps(user_id) ==
    {[id |-> app.id,
      is_blocked |-> is_blocked(app),
      installed |-> \E ua \in userApps : ua.user_id = user_id /\ ua.app_id = app.id] :
     app \in LimitRows(apps, BlockedAppsLimit)}

\* lines 76-114 with the read recording the listed apps as installed
GetBlockedApps_RecordsInstall(caller) ==
    /\ caller \in users
    /\ IF RoleName(caller) # "student"
       THEN /\ resp' = [op |-> "get_blocked_apps", status |-> "403", caller |-> caller.id]
            /\ UNCHANGED userApps
       ELSE /\ resp' = [op |-> "get_blocked_apps", status |-> "200", caller |-> caller.id,
                        rows |-> BlockedApps(caller.id)]
            /\ userApps' = userApps \cup
                   {[id |-> NextId(userApps) + app.id - 1, user_id |-> caller.id,
                     app_id |-> app.id, is_active |-> TRUE] :
                    app \in {a \in apps : ExistingUserApp(caller.id, a.id) = {}}}
    /\ UNCHANGED <<users, regCall, clock, held, profileVars, schoolVars, apps, deviceVars,
                   requestVars, sideVars>>

\* lines 76-114
GetBlockedApps(caller) ==
    /\ caller \in users
    /\ IF RoleName(caller) # "student"
       THEN resp' = [op |-> "get_blocked_apps", status |-> "403", caller |-> caller.id]
       ELSE resp' = [op |-> "get_blocked_apps", status |-> "200", caller |-> caller.id,
                     rows |-> BlockedApps(caller.id)]
    /\ UNCHANGED <<users, regCall, clock, held, profileVars, schoolVars, usageVars>>

\* lines 34-73: the answer is fixed but for the school name and the time
GetBlockingStatus(caller) ==
    /\ caller \in users
    /\ LET answer(status) == [op |-> "get_blocking_status", status |-> status,
                              caller |-> caller.id]
           found == {si \in studentInfo : si.user_id = caller.id}
       IN IF RoleName(caller) # "student"
          THEN resp' = answer("403")
          ELSE IF found = {}
          THEN resp' = answer("404")
          ELSE resp' = answer("200") @@
                       [blocking_active |-> TRUE,
                        school_detected |-> First(found).school \in Ids(schools),
                        current_time |-> clock]
    /\ UNCHANGED <<users, regCall, clock, held, profileVars, schoolVars, usageVars>>

\* lines 116-150: the answer names the pending status; nothing is stored
RequestEmergencyException(caller, app_id) ==
    /\ caller \in users
    /\ LET answer(status) == [op |-> "request_emergency_exception", status |-> status,
                              caller |-> caller.id, app_id |-> app_id]
       IN IF RoleName(caller) # "student"
          THEN resp' = answer("403")
          ELSE IF app_id \notin Ids(apps)
          THEN resp' = answer("404")
          ELSE resp' = answer("201") @@ [request_status |-> "pending"]
    /\ UNCHANGED <<users, regCall, clock, held, profileVars, schoolVars, usageVars>>

\* websites.py lines 150-201; fails is a storage failure at the commit
CreateWebsite(caller, url, name, fails) ==
    /\ caller \in users
    /\ LET answer(status) == [op |-> "create_website", status |-> status,
                              caller |-> caller.id]
       IN IF RoleName(caller) # "admin"
          THEN /\ resp' = answer("403")
               /\ UNCHANGED websites
          ELSE IF \E w \in websites : w.url = url
          THEN /\ resp' = answer("400")
               /\ UNCHANGED websites
          ELSE IF fails
          THEN /\ resp' = answer("500")
               /\ websites' = Rollback(websites, websites)
          ELSE /\ websites' = websites \cup {[id |-> NextId(websites), url |-> url,
                                                name |-> name]}
               /\ resp' = answer("200")
    /\ UNCHANGED <<users, regCall, clock, held, profileVars, schoolVars, appVars,
                   deviceVars, requestVars, instCall, preferenceVars, policies, policyApps,
                   otpVars>>

(***************************************************************************)
(* preferences.py: update_user_preferences;                                *)
(* register.py: create_user_preferences                                    *)
(***************************************************************************)
\* values of the Languages column; None is "not given"
Languages == {None, "uz", "ru"}

\* db.query(UserPreference).filter(UserPreference.user_id == user_id)
ExistingPreferences(user_id) == {up \in userPreferences : up.user_id = user_id}

\* preferences.py lines 71-84: the row is read, or a new one is added to the
\* session, and the fields given are set; nothing is committed yet
UpdateUserPreferencesCheck(c, caller, language) ==
    /\ caller \in users
    /\ prefCall[c].pc = "idle"
    /\ LET user_preferences == ExistingPreferences(caller.id)
       IN prefCall' = [prefCall EXCEPT ![c] =
              [pc |-> "checked", op |-> "update_user_preferences", user_id |-> caller.id,
               language |-> language,
               found |-> IF user_preferences # {} THEN First(user_preferences).id ELSE 0,
               result |-> None]]
    /\ UNCHANGED <<users, regCall, clock, held, resp, profileVars, schoolVars, appVars,
                   deviceVars, requestVars, instCall, userPreferences, catalogVars,
                   otpVars>>

\* preferences.py lines 86-99: commit of the updated or the new row
UpdateUserPreferencesCommit(c) ==
    /\ prefCall[c].pc = "checked"
    /\ prefCall[c].op = "update_user_preferences"
    /\ LET call == prefCall[c]
       IN IF call.found # 0
          THEN userPreferences' =
                   {IF up.id = call.found /\ call.language # None
                    THEN [up EXCEPT !.language = call.language] ELSE up :
                    up \in userPreferences}
          ELSE userPreferences' = userPreferences \cup
                   {[id |-> NextId(userPreferences), user_id |-> call.user_id,
                     language |-> call.language]}
    /\ prefCall' = [prefCall EXCEPT ![c].pc = "done", ![c].result = "200"]
    /\ UNCHANGED <<users, regCall, clock, held, resp, profileVars, schoolVars, appVars,
                   deviceVars, requestVars, instCall, catalogVars,
                   otpVars>>

\* register.py lines 182-195: 404 without the user, 400 with a row of the user;
\* the endpoint takes no token
CreateUserPreferencesCheck(c, user_id, language) ==
    /\ prefCall[c].pc = "idle"
    /\ LET call == [op |-> "create_user_preferences", user_id |-> user_id,
                    language |-> language, found |-> 0]
       IN IF user_id \notin Ids(users)
          THEN prefCall' = [prefCall EXCEPT ![c] = call @@ [pc |-> "done", result |-> "404"]]
          ELSE IF ExistingPreferences(user_id) # {}
          THEN prefCall' = [prefCall EXCEPT ![c] = call @@ [pc |-> "done", result |-> "400"]]
          ELSE prefCall' = [prefCall EXCEPT ![c] = call @@ [pc |-> "checked", result |-> None]]
    /\ UNCHANGED <<users, regCall, clock, held, resp, profileVars, schoolVars, appVars,
                   deviceVars, requestVars, instCall, userPreferences, catalogVars,
                   otpVars>>

\* register.py lines 197-211: insert and commit; the table has no constraint
\* that can refuse the row of an existing user
CreateUserPreferencesCommit(c) ==
    /\ prefCall[c].pc = "checked"
    /\ prefCall[c].op = "create_user_preferences"
    /\ userPreferences' = userPreferences \cup
           {[id |-> NextId(userPreferences), user_id |-> prefCall[c].user_id,
             language |-> prefCall[c].language]}
    /\ prefCall' = [prefCall EXCEPT ![c].pc = "done", ![c].result = "201"]
    /\ UNCHANGED <<users, regCall, clock, held, resp, profileVars, schoolVars, appVars,
                   deviceVars, requestVars, instCall, catalogVars,
                   otpVars>>

\* preferences.py lines 100-105, register.py lines 218-223: the store fails,
\* rollback, 500
PreferencesFail(c) ==
    /\ prefCall[c].pc = "checked"
    /\ prefCall' = [prefCall EXCEPT ![c].pc = "done", ![c].result = "500"]
    /\ UNCHANGED <<users, regCall, clock, held, resp, profileVars, schoolVars, appVars,
                   deviceVars, requestVars, instCall, userPreferences, catalogVars,
                   otpVars>>

(***************************************************************************)
(* devices.py: register_device; logs.py: create_log                        *)
(***************************************************************************)
\* devices.py lines 75-127; fails is a storage failure inside the try block
RegisterDevice(caller, os_id, fails) ==
    /\ caller \in users
    /\ Cardinality(devices) < MaxDevices
    /\ IF os_id \notin OsIds
       THEN /\ resp' = Response("register_device", "404")
            /\ UNCHANGED <<devices, userDevices, setups>>
       ELSE IF fails
       THEN /\ resp' = Response("register_device", "500")
            /\ devices' = Rollback(devices, devices \cup
                                              {[id |-> NextId(devices), os_id |-> os_id]})
            /\ userDevices' = Rollback(userDevices, userDevices)
            /\ setups' = Rollback(setups, setups)
       ELSE LET new_device == [id |-> NextId(devices), os_id |-> os_id]
            IN /\ devices' = devices \cup {new_device}
               /\ userDevices' = userDevices \cup
                      {[id |-> NextId(userDevices), user_id |-> caller.id,
                        device_id |-> new_device.id, is_active |-> TRUE]}
               /\ setups' = setups \cup
                      {[id |-> NextId(setups), user_id |-> caller.id,
                        device_id |-> new_device.id]}
               /\ resp' = Response("register_device", "201")
    /\ UNCHANGED <<users, regCall, clock, held, profileVars, schoolVars, appVars, logs,
                   requestVars,
                   sideVars>>

\* devices.py lines 148-175 with the logs of the device removed
DeactivateDevice_PurgesLogs(caller, device_id) ==
    /\ caller \in users
    /\ LET user_device == {ud \in userDevices :
                              ud.user_id = caller.id /\ ud.device_id = device_id}
           answer(status) == [op |-> "deactivate_device", status |-> status,
                              caller |-> caller.id, device_id |-> device_id]
       IN IF user_device = {}
          THEN /\ resp' = answer("404")
               /\ UNCHANGED <<userDevices, logs>>
          ELSE LET row == First(user_device)
               IN /\ userDevices' = (userDevices \ {row}) \cup
                                        {[row EXCEPT !.is_active = FALSE]}
                  /\ logs' = {l \in logs : l.device_id # device_id}
                  /\ resp' = answer("200")
    /\ UNCHANGED <<users, regCall, clock, held, profileVars, schoolVars, appVars, devices,
                   setups, requestVars, sideVars>>

\* devices.py lines 148-175
DeactivateDevice(caller, device_id) ==
    /\ caller \in users
    /\ LET user_device == {ud \in userDevices :
                              ud.user_id = caller.id /\ ud.device_id = device_id}
           answer(status) == [op |-> "deactivate_device", status |-> status,
                              caller |-> caller.id, device_id |-> device_id]
       IN IF user_device = {}
          THEN /\ resp' = answer("404")
               /\ UNCHANGED <<userDevices, logs>>
          ELSE LET row == First(user_device)
               IN /\ userDevices' = (userDevices \ {row}) \cup
                                        {[row EXCEPT !.is_active = FALSE]}
                  /\ UNCHANGED logs
                  /\ resp' = answer("200")
    /\ UNCHANGED <<users, regCall, clock, held, profileVars, schoolVars, appVars, devices,
                   setups, requestVars, sideVars>>

CreateLog_ValidatesAfterInsert(caller, device_id, app_id, action_id, fails) ==
    /\ caller \in users
    /\ Cardinality(logs) < MaxLogs
    /\ logs' = logs \cup {[id |-> NextId(logs), user_id |-> caller.id,
                           device_id |-> device_id, app_id |-> app_id,
                           action_id |-> action_id]}
    /\ resp' = Response("create_log", IF action_id \notin ActionIds THEN "404" ELSE "200")
    /\ UNCHANGED <<users, regCall, clock, held, profileVars, schoolVars, appVars, devices,
                   userDevices, setups, requestVars, sideVars>>

\* logs.py lines 38-105; app_id = 0 is "no app"
CreateLog(caller, device_id, app_id, action_id, fails) ==
    /\ caller \in users
    /\ Cardinality(logs) < MaxLogs
    /\ IF ~\E ud \in userDevices : ud.user_id = caller.id /\ ud.device_id = device_id
       THEN /\ resp' = Response("create_log", "403")
            /\ UNCHANGED logs
       ELSE IF action_id \notin ActionIds
       THEN /\ resp' = Response("create_log", "404")
            /\ UNCHANGED logs
       ELSE IF app_id # 0 /\ app_id \notin Ids(apps)
       THEN /\ resp' = Response("create_log", "404")
            /\ UNCHANGED logs
       ELSE IF fails
       THEN /\ resp' = Response("create_log", "500")
            /\ UNCHANGED logs
       ELSE /\ logs' = logs \cup {[id |-> NextId(logs), user_id |-> caller.id,
                                    device_id |-> device_id, app_id |-> app_id,
                                    action_id |-> action_id]}
            /\ resp' = Response("create_log", "200")
    /\ UNCHANGED <<users, regCall, clock, held, profileVars, schoolVars, appVars, devices,
                   userDevices, setups, requestVars,
                   sideVars>>

(***************************************************************************)
(* logs.py: get_logs, get_log_summary                                      *)
(***************************************************************************)
\* logs.py lines 127-134, no filter given: the query get_logs runs for a
\* caller of the role
LogsQuery(role_name, user_id) ==
    IF role_name = "parent" THEN {l \in logs : l.user_id = user_id} ELSE logs

\* logs.py lines 107-208
GetLogs(caller) ==
    /\ caller \in users
    /\ IF RoleName(caller) \notin {"parent", "admin"}
       THEN resp' = [op |-> "get_logs", status |-> "403", caller |-> caller.id, rows |-> {}]
       ELSE resp' = [op |-> "get_logs", status |-> "200", caller |-> caller.id,
                     rows |-> Ids(LogsQuery(RoleName(caller), caller.id))]
    /\ UNCHANGED <<users, regCall, clock, held, profileVars, schoolVars, usageVars>>

\* logs.py lines 228-301: the counts are taken over the caller's own rows
GetLogSummary(caller) ==
    /\ caller \in users
    /\ IF RoleName(caller) \notin {"parent", "admin", "student"}
       THEN resp' = [op |-> "get_log_summary", status |-> "403", caller |-> caller.id,
                     rows |-> {}]
       ELSE resp' = [op |-> "get_log_summary", status |-> "200", caller |-> caller.id,
                     rows |-> Ids({l \in logs : l.user_id = caller.id})]
    /\ UNCHANGED <<users, regCall, clock, held, profileVars, schoolVars, usageVars>>

(***************************************************************************)
(* auth.py: login                                                          *)
(***************************************************************************)
\* lines 47-49: create_access_token(data={"sub": user.id, "type": user.user_type})
LoginToken(user) ==
    [by |-> "login", expires_delta |-> NoTime,
     token |-> create_access_token([sub |-> IntSub(user.id), type |-> user.user_type_id],
                                   NoTime, clock)]

\* lines 32-57
Login(phone, role, pw) ==
    /\ LET found == ExistingUser(phone, role)
       IN IF found = {} \/ ~verify_password(pw, (CHOOSE u \in found : TRUE).password_hash)
          THEN /\ resp' = [op |-> "login", status |-> "401", user |-> 0]
               /\ UNCHANGED held
          ELSE LET user == CHOOSE u \in found : TRUE
               IN /\ held' = LoginToken(user)
                  /\ resp' = [op |-> "login", status |-> "200", user |-> user.id]
    /\ UNCHANGED <<users, regCall, clock, profileVars, schoolVars, usageVars>>

(***************************************************************************)
(* auth.py: check_phone_number                                             *)
(***************************************************************************)
\* lines 15-29: the answer over a users table
CheckPhoneAnswer(rows, phone, role) ==
    IF \E u \in rows : u.phone_number = phone /\ u.user_type_id = role
    THEN [exists |-> TRUE, message |-> "User exists. Please proceed to login."]
    ELSE [exists |-> FALSE, message |-> "User not found. Please register."]

\* lines 12-29: no token is asked for
CheckPhoneNumber(phone, role) ==
    /\ resp' = [op |-> "check_phone_number", status |-> "200",
                request |-> [phone_number |-> phone, user_type |-> role],
                body |-> CheckPhoneAnswer(users, phone, role)]
    /\ UNCHANGED <<users, regCall, clock, held, profileVars, schoolVars, usageVars>>

(***************************************************************************)
(* Tokens in the hands of clients                                          *)
(***************************************************************************)
\* expires_delta values a caller of create_access_token passes
Deltas == {NoTime, 0, 1}

TokenData ==
    [sub : {IntSub(1), StrSub("1")}, type : UserTypeIds]

\* security.py lines 28-44 applied by any caller
CreateAccessToken(data, expires_delta) ==
    /\ held' = [by |-> "create_access_token", expires_delta |-> expires_delta,
                token |-> create_access_token(data, expires_delta, clock)]
    /\ resp' = NoResp
    /\ UNCHANGED <<users, regCall, clock, profileVars, schoolVars, usageVars>>

\* payloads posted to /test-jwt/encode
EncodePayloads ==
    [sub : {None, "1", "abc"}, type : {NoType} \cup UserTypeIds, exp : {NoTime, 1}]

\* test_jwt.py lines 61-73: jwt.encode(payload, SECRET_KEY) of any payload
TestEncodeToken(payload) ==
    /\ held' = [by |-> "test_encode_token", expires_delta |-> NoTime,
                token |-> [sub |-> payload.sub, type |-> payload.type, exp |-> payload.exp,
                           key |-> SECRET_KEY]]
    /\ resp' = [op |-> "test_encode_token", status |-> "200", user |-> 0]
    /\ UNCHANGED <<users, regCall, clock, profileVars, schoolVars, usageVars>>

\* tokens signed with a key that is not SECRET_KEY
ForgedTokens ==
    [sub : {"1"}, type : UserTypeIds,
     exp : {NoTime, ACCESS_TOKEN_EXPIRE_MINUTES * (MaxTicks + 2)},
     key : {"some-other-key"}]

\* what a client can put in the Authorization header
PresentableTokens ==
    (IF held = NoToken THEN {} ELSE {held.token}) \cup ForgedTokens

\* Depends(get_current_user) of any authenticated endpoint
GetCurrentUser(token) ==
    /\ token \in PresentableTokens
    /\ LET outcome == get_current_user(token, clock)
       IN resp' = [op |-> "get_current_user", token |-> token, status |-> outcome.status,
                   user |-> IF outcome.status = "200" THEN outcome.user ELSE 0]
    /\ UNCHANGED <<users, regCall, clock, held, profileVars, schoolVars, usageVars>>

\* number of steps the clock has made
TicksOf(t) == (t \div ACCESS_TOKEN_EXPIRE_MINUTES) + (t % ACCESS_TOKEN_EXPIRE_MINUTES)

\* time passes, by a minute or by a whole token lifetime
Tick(d) ==
    /\ TicksOf(clock) < MaxTicks
    /\ clock' = clock + d
    /\ resp' = NoResp
    /\ UNCHANGED <<users, regCall, held, profileVars, schoolVars, usageVars>>

(***************************************************************************)
(* main.py: the OTP registration flow                                      *)
(***************************************************************************)
\* line 121
OTP_EXPIRY_SECONDS == 300

\* line 151: six random digits
Otps == {"481516", "234200"}

\* everything the endpoints of app/ keep
apiVars == <<users, regCall, clock, held, profileVars, schoolVars, appVars, deviceVars,
             requestVars, instCall, preferenceVars, catalogVars>>

\* lines 149-156: a new record replaces any earlier one of the phone
OtpRegister(phone, username, otp) ==
    /\ otp_store' = [otp_store EXCEPT ![phone] =
           [otp |-> otp, timestamp |-> otpTime,
            reg_data |-> [username |-> username, phone_number |-> phone]]]
    /\ otpVerified' = [otpVerified EXCEPT ![phone] = FALSE]
    /\ resp' = [op |-> "otp_register", status |-> "200", phone_number |-> phone]
    /\ UNCHANGED <<accounts, otpTime, apiVars>>

\* lines 159-170: an expired record is dropped; nothing records a success
VerifyOtp(phone, otp) ==
    /\ LET record == otp_store[phone]
           answer(status) == [op |-> "verify_otp", status |-> status, phone_number |-> phone]
       IN IF record = NoOtp
          THEN /\ resp' = answer("400")
               /\ UNCHANGED <<otp_store, otpVerified>>
          ELSE IF otpTime - record.timestamp > OTP_EXPIRY_SECONDS
          THEN /\ otp_store' = [otp_store EXCEPT ![phone] = NoOtp]
               /\ resp' = answer("400")
               /\ UNCHANGED otpVerified
          ELSE IF record.otp # otp
          THEN /\ resp' = answer("400")
               /\ UNCHANGED <<otp_store, otpVerified>>
          ELSE /\ resp' = answer("200")
               /\ otpVerified' = [otpVerified EXCEPT ![phone] = TRUE]
               /\ UNCHANGED otp_store
    /\ UNCHANGED <<accounts, otpTime, apiVars>>

\* lines 173-192: any record of the phone will do; fails is a refused commit
SetPassword(phone, pw, fails) ==
    /\ Cardinality(accounts) < MaxAccounts
    /\ LET record == otp_store[phone]
           answer(status) == [op |-> "set_password", status |-> status, phone_number |-> phone]
       IN IF record = NoOtp
          THEN /\ resp' = answer("400")
               /\ UNCHANGED <<otp_store, accounts>>
          ELSE /\ otp_store' = [otp_store EXCEPT ![phone] = NoOtp]
               /\ IF fails
                  THEN /\ accounts' = Rollback(accounts, accounts)
                       /\ resp' = answer("400")
                  ELSE /\ accounts' = accounts \cup
                              {[id |-> NextId(accounts),
                                phone_number |-> record.reg_data.phone_number,
                                username |-> record.reg_data.username,
                                password_hash |-> hash_password(pw)]}
                       /\ resp' = answer("200")
    /\ UNCHANGED <<otpTime, otpVerified, apiVars>>

\* number of steps the clock of the flow has made
OtpTicksOf(t) == (t \div OTP_EXPIRY_SECONDS) + (t % OTP_EXPIRY_SECONDS)

\* time passes, by a second or by a whole OTP lifetime
OtpTick(d) ==
    /\ OtpTicksOf(otpTime) < MaxOtpTicks
    /\ otpTime' = otpTime + d
    /\ resp' = NoResp
    /\ UNCHANGED <<otp_store, accounts, otpVerified, apiVars>>

(***************************************************************************)
(* Specifications                                                          *)
(***************************************************************************)
Init ==
    /\ users = {}
    /\ regCall = [c \in RegCalls |-> IdleCall]
    /\ clock = 0
    /\ held = NoToken
    /\ resp = NoResp
    /\ studentInfo = {}
    /\ parentInfo = {}
    /\ regions = {}
    /\ cities = {}
    /\ districts = {}
    /\ schools = {}
    /\ apps = {}
    /\ userApps = {}
    /\ devices = {}
    /\ userDevices = {}
    /\ setups = {}
    /\ logs = {}
    /\ appRequests = {}
    /\ appRequestLogs = {}
    /\ reqCall = [c \in ReqCalls |-> IdleRequest]
    /\ instCall = [c \in InstCalls |-> IdleInstall]
    /\ userPreferences = {}
    /\ prefCall = [c \in PrefCalls |-> IdlePreference]
    /\ websites = {}
    /\ policies = {}
    /\ policyApps = {}
    /\ otp_store = [p \in Phones |-> NoOtp]
    /\ accounts = {}
    /\ otpTime = 0
    /\ otpVerified = [p \in Phones |-> FALSE]

NextReg ==
    \/ \E c \in RegCalls, phone \in Phones, role \in UserTypeIds, uname \in Usernames :
          RegisterUserCheck(c, phone, role, uname, "parol123")
    \/ \E c \in RegCalls : RegisterUserCommit(c)
    \/ \E c \in RegCalls : RegisterUserFail(c)

SpecReg == Init /\ [][NextReg]_vars

\* authentication: accounts, tokens and time
NextTok ==
    \/ \E phone \in {"+998900000001"}, role \in UserTypeIds :
          RegisterUser(phone, role, None, "parol123")
    \/ \E phone \in {"+998900000001"}, role \in UserTypeIds, pw \in Passwords :
          Login(phone, role, pw)
    \/ \E data \in TokenData, expires_delta \in Deltas :
          CreateAccessToken(data, expires_delta)
    \/ \E payload \in EncodePayloads : TestEncodeToken(payload)
    \/ \E token \in PresentableTokens : GetCurrentUser(token)
    \/ \E d \in {1, ACCESS_TOKEN_EXPIRE_MINUTES} : Tick(d)

SpecTok == Init /\ [][NextTok]_vars

\* ids a request can name: the rows that can exist and one that cannot
UserRefs == 1..(MaxUsers + 1)

LocationRefs == {1, 2}

\* accounts, their profile rows and the schools the profiles refer to
NextProfile ==
    \/ \E role \in UserTypeIds : RegisterUser("+998900000001", role, None, "parol123")
    \/ \E user_id \in UserRefs, school \in LocationRefs, father \in {0} \cup UserRefs :
          CreateStudentInfo(user_id, school, father, 0)
    \/ \E user_id \in UserRefs : CreateParentInfo(user_id)
    \/ \E caller \in users : CreateRegion(caller, "Toshkent")
    \/ \E caller \in users, parent_region \in LocationRefs :
          CreateCity(caller, "Chirchiq", parent_region)
    \/ \E caller \in users, parent_region \in LocationRefs :
          CreateDistrict(caller, "Yunusobod", parent_region)
    \/ \E caller \in users, region_id \in LocationRefs, place \in LocationRefs :
          CreateSchool(caller, region_id, place, place)

SpecProfile == Init /\ [][NextProfile]_vars

\* profile rows created through the registration endpoints and changed
\* through the profile endpoints
NextSelf ==
    \/ \E role \in UserTypeIds : RegisterUser("+998900000001", role, None, "parol123")
    \/ \E user_id \in UserRefs, father \in {0} \cup UserRefs :
          CreateStudentInfo(user_id, 1, father, 0)
    \/ \E user_id \in UserRefs : CreateParentInfo(user_id)
    \/ \E caller \in users : CreateRegion(caller, "Toshkent")
    \/ \E caller \in users : CreateCity(caller, "Chirchiq", 1)
    \/ \E caller \in users : CreateDistrict(caller, "Yunusobod", 1)
    \/ \E caller \in users : CreateSchool(caller, 1, 1, 1)
    \/ \E caller \in users, school \in {0, 2}, father \in {0} \cup UserRefs :
          UpdateStudentInfo(caller, school, father)
    \/ \E caller \in users, address \in {None, "Chilonzor 5"} :
          UpdateParentProfile(caller, address)

SpecSelf == Init /\ [][NextSelf]_vars

AppRefs == {1, 2}

\* installed apps, devices and activity logs, one request at a time
NextApps ==
    \/ \E phone \in Phones : RegisterUser(phone, 1, None, "parol123")
    \/ \E caller \in users, fails \in BOOLEAN :
          RegisterInstalledApp(caller, "org.telegram.messenger", "Telegram", "Social", fails)
    \/ \E caller \in users, app_id \in AppRefs : UninstallApp(caller, app_id)
    \/ \E caller \in users, os_id \in {1, 2}, fails \in BOOLEAN :
          RegisterDevice(caller, os_id, fails)
    \/ \E caller \in users, device_id \in {1, 2}, app_id \in {0} \cup AppRefs,
          action_id \in {1, 2}, fails \in BOOLEAN :
          CreateLog(caller, device_id, app_id, action_id, fails)

SpecApps == Init /\ [][NextApps]_vars

RequestRefs == 1..(MaxReqCalls + 1)

\* app approval requests, interleaved, and their review
NextReq ==
    \/ \E role \in UserTypeIds : RegisterUser("+998900000001", role, None, "parol123")
    \/ \E caller \in users, fails \in BOOLEAN :
          RegisterInstalledApp(caller, "org.telegram.messenger", "Telegram", "Social", fails)
    \/ \E c \in ReqCalls, caller \in users, app_id \in AppRefs :
          RequestAppApprovalCheck(c, caller, app_id)
    \/ \E c \in ReqCalls : RequestAppApprovalCommit(c)
    \/ \E c \in ReqCalls : RequestAppApprovalFail(c)
    \/ \E caller \in users, request_id \in RequestRefs, new_status \in {"approved", "denied"} :
          ReviewAppRequest(caller, request_id, new_status)

SpecReq == Init /\ [][NextReq]_vars

PackageNames == {"org.telegram.messenger", "uz.newedu.darslik"}

\* installations reported by clients, interleaved
NextInst ==
    \/ \E phone \in Phones : RegisterUser(phone, 1, None, "parol123")
    \/ \E caller \in users :
          RegisterInstalledApp(caller, "org.telegram.messenger", "Telegram", "Social", FALSE)
    \/ \E c \in InstCalls, caller \in users, package_name \in PackageNames :
          RegisterInstalledAppCheck(c, caller, package_name, "Telegram X", "Messaging")
    \/ \E c \in InstCalls : RegisterInstalledAppCommit(c)
    \/ \E c \in InstCalls : RegisterInstalledAppFail(c)

SpecInst == Init /\ [][NextInst]_vars

\* calls that are refused, among calls that go through
NextErr ==
    \/ \E role \in {1, 3} : RegisterUser("+998900000001", role, None, "parol123")
    \/ \E caller \in users : CreateRegion(caller, "Toshkent")
    \/ \E caller \in users, region_id \in LocationRefs :
          CreateSchool(caller, region_id, 1, 1)
    \/ \E caller \in users : RegisterDevice(caller, 1, FALSE)
    \/ \E caller \in users :
          RegisterInstalledApp(caller, "org.telegram.messenger", "Telegram", "Social", FALSE)
    \/ \E caller \in users, app_id \in {0, 2}, action_id \in {1, 2} :
          CreateLog(caller, 1, app_id, action_id, FALSE)
    \/ \E c \in {1, 2}, caller \in users, app_id \in AppRefs :
          RequestAppApprovalCheck(c, caller, app_id)
    \/ \E c \in {1, 2} : RequestAppApprovalCommit(c)

SpecErr == Init /\ [][NextErr]_vars

\* the app and website catalogs, written and read by callers of every role
NextCatalog ==
    \/ \E role \in UserTypeIds : RegisterUser("+998900000001", role, None, "parol123")
    \/ \E caller \in users, package_name \in PackageNames, fails \in BOOLEAN :
          RegisterInstalledApp(caller, package_name, "Telegram", "Social", fails)
    \/ \E caller \in users, url \in {"https://kun.uz", "https://ziyonet.uz"},
          fails \in BOOLEAN :
          CreateWebsite(caller, url, "Yangiliklar", fails)
    \/ \E caller \in users : GetApps(caller)

SpecCatalog == Init /\ [][NextCatalog]_vars

\* activity logs, written by devices and read back
NextLogs ==
    \/ \E role \in UserTypeIds : RegisterUser("+998900000001", role, None, "parol123")
    \/ \E caller \in users : RegisterDevice(caller, 1, FALSE)
    \/ \E caller \in users, device_id \in {1, 2} : CreateLog(caller, device_id, 0, 1, FALSE)
    \/ \E caller \in users : GetLogs(caller)
    \/ \E caller \in users : GetLogSummary(caller)

SpecLogs == Init /\ [][NextLogs]_vars

\* requests for an app, their review, and the blocked list
NextException ==
    \/ \E role \in UserTypeIds : RegisterUser("+998900000001", role, None, "parol123")
    \/ \E caller \in users :
          RegisterInstalledApp(caller, "org.telegram.messenger", "Telegram", "Social", FALSE)
    \/ \E caller \in users, app_id \in AppRefs : RequestEmergencyException(caller, app_id)
    \/ \E caller \in users, app_id \in AppRefs : RequestAppApprovalCheck(1, caller, app_id)
    \/ RequestAppApprovalCommit(1)
    \/ \E caller \in users, request_id \in RequestRefs, new_status \in {"approved", "denied"} :
          ReviewAppRequest(caller, request_id, new_status)
    \/ \E caller \in users : GetBlockedApps(caller)

SpecException == Init /\ [][NextException]_vars

\* a student with a profile and a school reads the blocking state as time
\* passes
NextRead ==
    \/ \E role \in {1, 3} : RegisterUser("+998900000001", role, None, "parol123")
    \/ \E caller \in users : CreateRegion(caller, "Toshkent")
    \/ \E caller \in users : CreateCity(caller, "Chirchiq", 1)
    \/ \E caller \in users : CreateDistrict(caller, "Yunusobod", 1)
    \/ \E caller \in users : CreateSchool(caller, 1, 1, 1)
    \/ \E user_id \in UserRefs : CreateStudentInfo(user_id, 1, 0, 0)
    \/ \E caller \in users :
          RegisterInstalledApp(caller, "org.telegram.messenger", "Telegram", "Social", FALSE)
    \/ \E caller \in users : GetBlockedApps(caller)
    \/ \E caller \in users : GetBlockingStatus(caller)
    \/ Tick(1)

SpecRead == Init /\ [][NextRead]_vars

\* the operations a client without a token can reach
NextAuth ==
    \/ \E phone \in Phones, role \in {1, 2} : RegisterUser(phone, role, None, "parol123")
    \/ \E phone \in Phones, role \in {1, 2}, pw \in Passwords : Login(phone, role, pw)
    \/ \E phone \in Phones, role \in {1, 2} : CheckPhoneNumber(phone, role)

SpecAuth == Init /\ [][NextAuth]_vars

\* activity is logged while apps are uninstalled and devices deactivated
NextHistory ==
    \/ \E phone \in Phones : RegisterUser(phone, 1, None, "parol123")
    \/ \E caller \in users :
          RegisterInstalledApp(caller, "org.telegram.messenger", "Telegram", "Social", FALSE)
    \/ \E caller \in users : UninstallApp(caller, 1)
    \/ \E caller \in users : RegisterDevice(caller, 1, FALSE)
    \/ \E caller \in users, device_id \in {1, 2} : DeactivateDevice(caller, device_id)
    \/ \E caller \in users, device_id \in {1, 2}, app_id \in {0, 1} :
          CreateLog(caller, device_id, app_id, 1, FALSE)

SpecHistory == Init /\ [][NextHistory]_vars

\* the accounts whose calls are followed
Callers == {u \in users : u.id \in {1, 2}}

\* a deployment in use: a student, a parent and the admin who created the
\* school; create_student_info and create_parent_info have been called for
\* both the student and the parent account
InitOwn ==
    /\ users = {[id |-> i, phone_number |-> "+998900000001", user_type_id |-> i,
                 username |-> None, password_hash |-> hash_password("parol123")] :
                i \in UserTypeIds}
    /\ regCall = [c \in RegCalls |-> IdleCall]
    /\ clock = 0
    /\ held = NoToken
    /\ resp = NoResp
    /\ studentInfo = {[id |-> i, user_id |-> i, school |-> 1, father |-> 0, mother |-> 0] :
                       i \in {1, 2}}
    /\ parentInfo = {[id |-> i, user_id |-> 3 - i, address |-> None] : i \in {1, 2}}
    /\ regions = {[id |-> 1, name |-> "Toshkent"]}
    /\ cities = {[id |-> 1, name |-> "Chirchiq", parent_region |-> 1]}
    /\ districts = {[id |-> 1, name |-> "Yunusobod", parent_region |-> 1]}
    /\ schools = {[id |-> 1, region_id |-> 1, city_id |-> 1, district_id |-> 1]}
    /\ apps = {}
    /\ userApps = {}
    /\ devices = {}
    /\ userDevices = {}
    /\ setups = {}
    /\ logs = {}
    /\ appRequests = {}
    /\ appRequestLogs = {}
    /\ reqCall = [c \in ReqCalls |-> IdleRequest]
    /\ instCall = [c \in InstCalls |-> IdleInstall]
    /\ userPreferences = {}
    /\ prefCall = [c \in PrefCalls |-> IdlePreference]
    /\ websites = {}
    /\ policies = {}
    /\ policyApps = {}
    /\ otp_store = [p \in Phones |-> NoOtp]
    /\ accounts = {}
    /\ otpTime = 0
    /\ otpVerified = [p \in Phones |-> FALSE]

\* the authenticated mutations of two accounts side by side
NextOwn ==
    \/ \E caller \in Callers : UpdateStudentInfo(caller, 0, 2)
    \/ \E caller \in Callers : UpdateParentProfile(caller, "Chilonzor 5")
    \/ \E caller \in Callers :
          RegisterInstalledApp(caller, "org.telegram.messenger", "Telegram", "Social", FALSE)
    \/ \E caller \in Callers : UninstallApp(caller, 1)
    \/ \E caller \in Callers : RegisterDevice(caller, 1, FALSE)
    \/ \E caller \in Callers : DeactivateDevice(caller, 1)
    \/ \E caller \in Callers : CreateLog(caller, 1, 0, 1, FALSE)
    \/ \E caller \in Callers : UpdateUserPreferencesCheck(1, caller, "uz")
    \/ UpdateUserPreferencesCommit(1)

SpecOwn == InitOwn /\ [][NextOwn]_vars

\* the three steps of the OTP registration, in any order, as time passes
NextOtp ==
    \/ \E phone \in Phones, otp \in Otps : OtpRegister(phone, "alisher", otp)
    \/ \E phone \in Phones, otp \in Otps : VerifyOtp(phone, otp)
    \/ \E phone \in Phones, fails \in BOOLEAN : SetPassword(phone, "parol123", fails)
    \/ \E d \in {1, OTP_EXPIRY_SECONDS} : OtpTick(d)

SpecOtp == Init /\ [][NextOtp]_vars

\* a catalog of n apps, each of one of the two general types
Catalogs ==
    UNION {{ {[id |-> i, package_name |-> <<"uz.newedu.app", i>>, name |-> <<"App", i>>,
               general_type |-> types[i]] : i \in 1..n} :
             types \in [1..n -> {"Social", "Education"}]} : n \in 0..MaxCatalog}

\* no policy, or one policy of either mode aimed at students or at parents
PolicyTables ==
    {{}} \cup {{[id |-> 1, is_whitelist_app |-> mode, targeted_user_type_id |-> target]} :
                 mode \in BOOLEAN, target \in {1, 2}}

\* the entries of a policy: at most one per app of the catalog
PolicyAppTables(policy_rows, app_rows) ==
    {{[id |-> app_id, policy_id |-> policy.id, app_id |-> app_id] :
        app_id \in listed, policy \in policy_rows} : listed \in SUBSET Ids(app_rows)}

\* a deployment with a student and a parent account, a catalog, and the policy
\* tables as provisioned
InitBlocking ==
    /\ users = {[id |-> 1, phone_number |-> "+998900000001", user_type_id |-> 1,
                 username |-> None, password_hash |-> hash_password("parol123")],
                [id |-> 2, phone_number |-> "+998900000002", user_type_id |-> 2,
                 username |-> None, password_hash |-> hash_password("parol123")]}
    /\ regCall = [c \in RegCalls |-> IdleCall]
    /\ clock = 0
    /\ held = NoToken
    /\ resp = NoResp
    /\ studentInfo = {}
    /\ parentInfo = {}
    /\ regions = {}
    /\ cities = {}
    /\ districts = {}
    /\ schools = {}
    /\ apps \in Catalogs
    /\ userApps = {}
    /\ devices = {}
    /\ userDevices = {}
    /\ setups = {}
    /\ logs = {}
    /\ appRequests = {}
    /\ appRequestLogs = {}
    /\ reqCall = [c \in ReqCalls |-> IdleRequest]
    /\ instCall = [c \in InstCalls |-> IdleInstall]
    /\ userPreferences = {}
    /\ prefCall = [c \in PrefCalls |-> IdlePreference]
    /\ websites = {}
    /\ policies \in PolicyTables
    /\ policyApps \in PolicyAppTables(policies, apps)
    /\ otp_store = [p \in Phones |-> NoOtp]
    /\ accounts = {}
    /\ otpTime = 0
    /\ otpVerified = [p \in Phones |-> FALSE]

NextBlocking ==
    \E caller \in users : GetBlockedApps(caller)

SpecBlocking == InitBlocking /\ [][NextBlocking]_vars

\* first and later writes of user preferences, interleaved
NextPref ==
    \/ \E phone \in Phones : RegisterUser(phone, 1, None, "parol123")
    \/ \E c \in PrefCalls, caller \in users, language \in Languages :
          UpdateUserPreferencesCheck(c, caller, language)
    \/ \E c \in PrefCalls : UpdateUserPreferencesCommit(c)
    \/ \E c \in PrefCalls, user_id \in UserRefs, language \in Languages :
          CreateUserPreferencesCheck(c, user_id, language)
    \/ \E c \in PrefCalls : CreateUserPreferencesCommit(c)
    \/ \E c \in PrefCalls : PreferencesFail(c)

SpecPref == Init /\ [][NextPref]_vars

(***************************************************************************)
(* Registration properties                                                 *)
(***************************************************************************)
\* the register_user calls that carry the pair (phone, role)
CallsWith(phone, role) ==
    {c \in RegCalls : /\ regCall[c].pc # "idle"
                      /\ regCall[c].phone_number = phone
                      /\ regCall[c].user_type_id = role}

\* exactly two calls carry the pair, both have returned, the store did not fail
TwoCallsDone(phone, role) ==
    /\ Cardinality(CallsWith(phone, role)) = 2
    /\ \A c \in CallsWith(phone, role) : regCall[c].pc = "done" /\ regCall[c].result # "500"

Succeeded(phone, role) == {c \in CallsWith(phone, role) : regCall[c].result = "201"}

Conflicted(phone, role) == {c \in CallsWith(phone, role) : regCall[c].result = "400"}

\* the username of call c is held by a user with another (phone, role) pair
UsernameTakenElsewhere(c) ==
    /\ regCall[c].username # None
    /\ \E u \in users : /\ u.username = regCall[c].username
                        /\ ~(u.phone_number = regCall[c].phone_number
                             /\ u.user_type_id = regCall[c].user_type_id)

VerifiedHeldToken ==
    /\ resp.op = "get_current_user"
    /\ held # NoToken
    /\ resp.token = held.token

\* C6: a token made by create_access_token with expires_delta = 0 is
\* rejected by get_current_user at every time at or after its issuance.
C6_ZeroTtlRejected ==
    (VerifiedHeldToken /\ held.by = "create_access_token" /\ held.expires_delta = 0)
        => resp.status = "401"

\* C7: get_current_user returns a user only for a token that verifies under
\* SECRET_KEY, whose exp lies in the future and that carries both the subject
\* and the role claim; every other token gets 401 and no user.
C7_OnlyWellFormedTokens ==
    resp.op = "get_current_user" =>
        IF /\ resp.token.key = SECRET_KEY
           /\ resp.token.exp # NoTime
           /\ resp.token.exp > clock
           /\ resp.token.sub # None
           /\ IsNumeric(resp.token.sub)
           /\ resp.token.type # NoType
        THEN resp.status \in {"200", "401"}
        ELSE resp.status = "401" /\ resp.user = 0

C9_UserIffProfile ==
    /\ \A u \in users :
          /\ RoleName(u) = "student" => \E si \in studentInfo : si.user_id = u.id
          /\ RoleName(u) = "parent" => \E pi \in parentInfo : pi.user_id = u.id
    /\ \A si \in studentInfo : \E u \in users : u.id = si.user_id /\ RoleName(u) = "student"
    /\ \A pi \in parentInfo : \E u \in users : u.id = pi.user_id /\ RoleName(u) = "parent"

(***************************************************************************)
(* Installed-app properties                                                *)
(***************************************************************************)
UserAppRows(rows, user_id, app_id) ==
    {ua \in rows : ua.user_id = user_id /\ ua.app_id = app_id}

\* C10: any sequence of register_installed_app and uninstall_app calls keeps
\* one UserApp row per (user, app): no step removes or re-keys a row or adds
\* a second row for the pair, a successful register_installed_app leaves the
\* pair's row active under the id it reports, and no Log row disappears.
C10_ReinstallReusesRow ==
    [][ /\ \A ua \in userApps : \E ub \in userApps' :
              ub.id = ua.id /\ ub.user_id = ua.user_id /\ ub.app_id = ua.app_id
        /\ \A ub \in userApps' :
              Cardinality(UserAppRows(userApps', ub.user_id, ub.app_id)) = 1
        /\ logs \subseteq logs'
        /\ (resp'.op = "register_installed_app" /\ resp'.status = "200") =>
              \E ub \in userApps' : /\ ub.id = resp'.user_app_id
                                   /\ ub.user_id = resp'.caller
                                   /\ ub.app_id = resp'.app_id
                                   /\ ub.is_active
                                   /\ (UserAppRows(userApps, ub.user_id, ub.app_id) # {}
                                         => ub.id \in Ids(UserAppRows(userApps, ub.user_id, ub.app_id)))
      ]_vars

\* an uninstalled app was installed again: the row is the original one, it
\* is active, and a Log row of the pair is still stored
C10_Witness ==
    /\ resp.op = "register_installed_app"
    /\ resp.status = "200"
    /\ resp.reactivated
    /\ \E ua \in userApps : ua.id = resp.user_app_id /\ ua.is_active
    /\ \E log \in logs : log.user_id = resp.caller /\ log.app_id = resp.app_id
    /\ Cardinality(userApps) = 2


(***************************************************************************)
(* App approval requests                                                   *)
(***************************************************************************)
PendingOf(rows, user_id, app_id) ==
    {r \in rows : r.user_id = user_id /\ r.app_id = app_id /\ r.status = "pending"}

\* C2: for every user U and app A at most one AppRequest row of (U, A) is
\* pending at any time, also when two requests of U for A are in flight
\* together.
C2_AtMostOnePending ==
    \A user \in users, app \in apps :
        Cardinality(PendingOf(appRequests, user.id, app.id)) <= 1

\* C3: a request_app_approval call of U for A never answers 200 in a state
\* where a pending AppRequest of (U, A) exists: it ends with the conflict
\* answer and adds no row.
C3_PendingRejectsRequest ==
    [][\A c \in ReqCalls :
         (reqCall[c].pc # "done" /\ reqCall'[c].pc = "done"
            /\ PendingOf(appRequests, reqCall'[c].user_id, reqCall'[c].app_id) # {}) =>
              /\ reqCall'[c].result = "400"
              /\ appRequests' = appRequests
      ]_vars

\* the guard as the handler evaluates it: a call that reads the store while
\* a pending request of (U, A) exists answers 400 and adds nothing; one that
\* finds none pending goes on to the insert, and its 200 stands for one new
\* pending row of (U, A)
PendingGuardAtRead ==
    [][\A c \in ReqCalls :
         /\ (reqCall[c].pc = "idle" /\ reqCall'[c].pc # "idle"
                /\ reqCall'[c].app_id \in Ids(apps)) =>
              IF PendingOf(appRequests, reqCall'[c].user_id, reqCall'[c].app_id) # {}
              THEN /\ reqCall'[c].pc = "done"
                   /\ reqCall'[c].result = "400"
                   /\ appRequests' = appRequests
              ELSE reqCall'[c].pc = "checked"
         /\ (reqCall[c].pc = "checked" /\ reqCall'[c].result = "200") =>
              \E r \in appRequests' :
                  /\ r.id \notin Ids(appRequests)
                  /\ r.id = reqCall'[c].request_id
                  /\ r.user_id = reqCall[c].user_id
                  /\ r.app_id = reqCall[c].app_id
                  /\ r.status = "pending"
                  /\ appRequests' = appRequests \cup {r}
      ]_vars

\* a request of (U, A) was decided and a later call of U for A answered 200
\* with a new pending row, while another call met the conflict answer
ReRequestAfterDecision ==
    \E old \in appRequests, new \in appRequests, c \in ReqCalls :
        /\ old.user_id = new.user_id /\ old.app_id = new.app_id
        /\ old.status \in {"approved", "denied"}
        /\ new.status = "pending" /\ new.id > old.id
        /\ reqCall[c].pc = "done" /\ reqCall[c].result = "200"
        /\ reqCall[c].request_id = new.id

StatusChanged == {r \in appRequests :
                    \E q \in appRequests' : q.id = r.id /\ q.status # r.status}

StatusAfter(r) == (CHOOSE q \in appRequests' : q.id = r.id).status

\* C4: every step that changes the status of an AppRequest adds exactly one
\* AppRequestLog row, with the status before, the status after and the admin
\* who acted; no other step adds or removes a row, so each request has as
\* many log rows as status changes.
C4_OneLogRowPerStatusChange ==
    [][/\ appRequestLogs \subseteq appRequestLogs'
       /\ Cardinality(appRequestLogs' \ appRequestLogs) = Cardinality(StatusChanged)
       /\ \A r \in StatusChanged :
             \E l \in appRequestLogs' \ appRequestLogs :
                 /\ l.app_request_id = r.id
                 /\ l.status_was = r.status
                 /\ l.status_changed_to = StatusAfter(r)
                 /\ l.responsible_admin_id = resp'.caller
                 /\ resp'.op = "review_app_request"
                 /\ \E u \in users : u.id = resp'.caller /\ RoleName(u) = "admin"
      ]_vars

\* both outcomes of a review are on record, each with its one audit row
C4_Witness ==
    /\ \E r \in appRequests : r.status = "approved"
    /\ \E r \in appRequests : r.status = "denied"
    /\ \A r \in appRequests :
          Cardinality({l \in appRequestLogs : l.app_request_id = r.id}) =
              IF r.status = "pending" THEN 0 ELSE 1
    /\ \A l \in appRequestLogs :
          l.status_was = "pending" /\ l.status_changed_to \in {"approved", "denied"}

C11_AtMostOneUserAppPerPair ==
    \A a \in userApps, b \in userApps :
        (a.user_id = b.user_id /\ a.app_id = b.app_id) => a = b

C13_AtMostOnePreferenceRow ==
    \A a \in userPreferences, b \in userPreferences : a.user_id = b.user_id => a = b

StoreTables ==
    <<users, studentInfo, parentInfo, regions, cities, districts, schools, apps, userApps,
      devices, userDevices, setups, logs, appRequests, appRequestLogs, userPreferences,
      websites, policies, policyApps>>

\* C15: a call that ends with 400, 403 or 404 leaves every table unchanged:
\* request_app_approval for a missing app or with a pending request,
\* create_log for a device of another user or a missing action or app,
\* create_school by a non-admin or with a missing region, city or district,
\* and every other refused call.
C15_RefusedCallChangesNothing ==
    [][(\/ resp' # resp /\ resp'.op # None /\ resp'.status \in {"400", "403", "404"}
        \/ \E c \in ReqCalls : reqCall[c].pc = "idle" /\ reqCall'[c].result \in {"400", "404"})
          => UNCHANGED StoreTables
      ]_vars

\* refused calls of the three handlers, met in a store that holds rows: a
\* create_log answered 404, after a request was refused for its pending
\* twin, and a region exists
C15_Witness ==
    /\ resp.op = "create_log" /\ resp.status = "404"
    /\ logs # {} /\ regions # {}
    /\ \E c \in ReqCalls, d \in ReqCalls :
          reqCall[c].result = "200" /\ reqCall[d].result = "400"

(***************************************************************************)
(* Catalog management                                                      *)
(***************************************************************************)
\* C16: a step that adds or changes an App or Website catalog row serves a
\* call whose caller has the admin role; a call of a student or parent
\* leaves both catalogs as they were.
C16_CatalogWritesAdminOnly ==
    [][(apps' # apps \/ websites' # websites) =>
          \E u \in users : u.id = resp'.caller /\ RoleName(u) = "admin"
      ]_vars

(***************************************************************************)
(* Reading logs                                                            *)
(***************************************************************************)
\* C17: a get_logs call that passes the role gate returns what the query
\* returns to every permitted role: the rows do not depend on whether the
\* caller is a parent or an admin.
C17_GateNeverNarrows ==
    (resp.op = "get_logs" /\ resp.status = "200") =>
        \A role_name \in {"parent", "admin"} :
            resp.rows = Ids(LogsQuery(role_name, resp.caller))

\* the students whose StudentInfo names the user as father or mother
ChildrenOf(user_id) ==
    {si.user_id : si \in {x \in studentInfo : x.father = user_id \/ x.mother = user_id}}

\* C18: every Log row get_logs returns to a parent belongs to a child of
\* that parent.
C18_ParentSeesOnlyChildren ==
    (resp.op = "get_logs" /\ resp.status = "200"
       /\ \E u \in users : u.id = resp.caller /\ RoleName(u) = "parent") =>
        \A l \in logs : l.id \in resp.rows => l.user_id \in ChildrenOf(resp.caller)

(***************************************************************************)
(* Profile management                                                      *)
(***************************************************************************)
ProfileRowsOf(user_id, rows) == {r \in rows : r.user_id = user_id}

\* C19: a step that creates or changes the StudentInfo or ParentInfo row of
\* user U serves a call authenticated as U: the response is that of a
\* handler that resolved a caller from its token, and the caller is U.
C19_ProfileWritesSelfOnly ==
    [][\A user_id \in UserRefs :
         (\/ ProfileRowsOf(user_id, studentInfo') # ProfileRowsOf(user_id, studentInfo)
          \/ ProfileRowsOf(user_id, parentInfo') # ProfileRowsOf(user_id, parentInfo))
            => ("caller" \in DOMAIN resp' /\ resp'.caller = user_id)
      ]_vars

(***************************************************************************)
(* Policy resolution                                                       *)
(***************************************************************************)
\* the policy aimed at the user's role, if there is one
ApplicablePolicies(user) ==
    {p \in policies : p.targeted_user_type_id = user.user_type_id}

ListedIn(policy, app_id) ==
    \E pa \in policyApps : pa.policy_id = policy.id /\ pa.app_id = app_id

\* no applicable policy: not blocked; whitelist: blocked unless listed;
\* blacklist: blocked when listed
ReferenceBlocked(user, app_id) ==
    IF ApplicablePolicies(user) = {}
    THEN FALSE
    ELSE LET policy == First(ApplicablePolicies(user))
         IN IF policy.is_whitelist_app
            THEN ~ListedIn(policy, app_id)
            ELSE ListedIn(policy, app_id)

\* C20: every entry of a get_blocked_apps answer reports the app as blocked
\* exactly when the policy resolution for the calling student and that app
\* says so.
C20_BlockedMatchesPolicy ==
    (resp.op = "get_blocked_apps" /\ resp.status = "200")
        => \A row \in resp.rows :
              row.is_blocked
                  = ReferenceBlocked(CHOOSE u \in users : u.id = resp.caller, row.id)

(***************************************************************************)
(* Exception and approval requests                                         *)
(***************************************************************************)
\* C21: after a successful request_emergency_exception by student S for app
\* A, an AppRequest row for (S, A) with status pending is stored.
C21_ExceptionLeavesPendingRequest ==
    (resp.op = "request_emergency_exception" /\ resp.status = "201")
        => PendingOf(appRequests, resp.caller, resp.app_id) # {}

\* what get_blocked_apps reports for the pair, as a set of flags
BlockedResult(user_id, app_id) ==
    {row.is_blocked : row \in {q \in BlockedApps(user_id) : q.id = app_id}}

ApprovedFor(rows, user_id, app_id) ==
    \E r \in rows : r.user_id = user_id /\ r.app_id = app_id /\ r.status = "approved"

\* C22: for every user and catalogued app, no step changes the blocked
\* result unless a request of that user for that app stands approved after
\* it; submitting a request changes no blocked result.
C22_RequestNeverUnblocks ==
    [][\A u \in users, app \in apps :
         ~ApprovedFor(appRequests', u.id, app.id)
            => BlockedResult(u.id, app.id)' = BlockedResult(u.id, app.id)
      ]_vars

\* a request for a blocked app has been stored and is awaiting review
C22_Witness ==
    /\ reqCall[1].pc = "done" /\ reqCall[1].result = "200"
    /\ \E r \in appRequests :
          /\ r.status = "pending"
          /\ BlockedResult(r.user_id, r.app_id) = {TRUE}

(***************************************************************************)
(* Reading the blocking state                                              *)
(***************************************************************************)
BlockingReads == {"get_blocked_apps", "get_blocking_status"}

\* C23: a get_blocked_apps or get_blocking_status call changes no stored
\* row, and a call that follows the same call of the same user at the same
\* time gets the same answer.
C23_BlockedReadIsPure ==
    [][resp'.op \in BlockingReads
         => /\ StoreTables' = StoreTables
            /\ (resp.op = resp'.op /\ resp.caller = resp'.caller /\ clock' = clock)
                  => resp' = resp
      ]_vars

\* a student has been told that an installed app is blocked
C23_Witness ==
    /\ resp.op = "get_blocked_apps" /\ resp.status = "200"
    /\ \E row \in resp.rows : row.is_blocked /\ row.installed

\* a student with a profile has read the blocking status after time passed
BlockingStatusRead ==
    /\ resp.op = "get_blocking_status" /\ resp.status = "200"
    /\ resp.current_time > 0

(***************************************************************************)
(* Existence of an account, as seen without a token                        *)
(***************************************************************************)
\* the users table without the user of the pair
WithoutUser(phone, role) == users \ ExistingUser(phone, role)

\* C24: the answer of check_phone_number for (phone, role) is the answer the
\* store without that user gives, and a refused login carries nothing but
\* the refusal.
C24_NoExistenceLeak ==
    /\ resp.op = "check_phone_number"
          => resp.body = CheckPhoneAnswer(WithoutUser(resp.request.phone_number,
                                                      resp.request.user_type),
                                          resp.request.phone_number, resp.request.user_type)
    /\ (resp.op = "login" /\ resp.status = "401")
          => resp = [op |-> "login", status |-> "401", user |-> 0]

(***************************************************************************)
(* Uninstalling                                                            *)
(***************************************************************************)
\* every table but user_app
TablesButUserApps ==
    <<users, studentInfo, parentInfo, regions, cities, districts, schools, apps,
      devices, userDevices, setups, logs, appRequests, appRequestLogs, userPreferences,
      websites, policies, policyApps>>

\* C25: an uninstall_app call of user U for app A changes no table but
\* user_app; there it deletes no row, changes no row of another user or
\* another app, and changes of U's row for A nothing but is_active, to
\* false; without such a row it answers 404 and changes nothing.
C25_UninstallOnlyDeactivates ==
    [][resp'.op = "uninstall_app"
         => /\ TablesButUserApps' = TablesButUserApps
            /\ Ids(userApps') = Ids(userApps)
            /\ \A ua \in userApps :
                  LET after == CHOOSE q \in userApps' : q.id = ua.id
                  IN IF ua.user_id = resp'.caller /\ ua.app_id = resp'.app_id
                     THEN after = [ua EXCEPT !.is_active = FALSE]
                     ELSE after = ua
            /\ (resp'.status = "404") = (UserAppRows(userApps, resp'.caller, resp'.app_id) = {})
            /\ resp'.status = "404" => userApps' = userApps
      ]_vars

\* an app with logged activity has been uninstalled: the row and the log stay
C25_Witness ==
    /\ resp.op = "uninstall_app" /\ resp.status = "200"
    /\ \E ua \in userApps :
          ua.user_id = resp.caller /\ ua.app_id = resp.app_id /\ ~ua.is_active
    /\ \E l \in logs : l.user_id = resp.caller /\ l.app_id = resp.app_id
    /\ \E ua \in userApps : ua.user_id # resp.caller /\ ua.is_active

(***************************************************************************)
(* Activity history                                                        *)
(***************************************************************************)
\* C26: every stored Log row is still stored, with every field as it was,
\* after any step: no operation changes or deletes a Log row.
C26_LogsAppendOnly ==
    [][logs \subseteq logs']_vars

\* a log of an app since uninstalled, on a device since deactivated, followed
\* by a later log
C26_Witness ==
    \E l \in logs :
        /\ \E ud \in userDevices : ud.device_id = l.device_id /\ ~ud.is_active
        /\ \E ua \in userApps :
              ua.user_id = l.user_id /\ ua.app_id = l.app_id /\ ~ua.is_active
        /\ \E later \in logs : later.id > l.id

(***************************************************************************)
(* Tokens handed out                                                       *)
(***************************************************************************)
\* C27: a token returned by login or by register_user, presented before its
\* expiry while the user it names exists, is accepted by get_current_user
\* for that user.
C27_IssuedTokensAccepted ==
    (/\ VerifiedHeldToken
     /\ held.by \in {"login", "register_user"}
     /\ held.token.exp > clock
     /\ \E u \in users : ToStr(u.id) = held.token.sub)
        => (resp.status = "200" /\ ToStr(resp.user) = held.token.sub)

(***************************************************************************)
(* Ownership                                                               *)
(***************************************************************************)
\* the rows a user owns, table by table
OwnedRows(user_id) ==
    <<{r \in userApps : r.user_id = user_id}, {r \in userDevices : r.user_id = user_id},
      {r \in logs : r.user_id = user_id}, {r \in userPreferences : r.user_id = user_id},
      {r \in studentInfo : r.user_id = user_id}, {r \in parentInfo : r.user_id = user_id}>>

\* the step is one of the authenticated mutations, made by the caller
MutationBy(caller) ==
    \/ UninstallApp(caller, 1)
    \/ RegisterInstalledApp(caller, "org.telegram.messenger", "Telegram", "Social", FALSE)
    \/ DeactivateDevice(caller, 1)
    \/ CreateLog(caller, 1, 0, 1, FALSE)
    \/ UpdateUserPreferencesCommit(1) /\ prefCall[1].user_id = caller.id
    \/ UpdateStudentInfo(caller, 0, 2)
    \/ UpdateParentProfile(caller, "Chilonzor 5")

LinkedTo(user_id, device_id) ==
    \E ud \in userDevices : ud.user_id = user_id /\ ud.device_id = device_id

\* C28: a step of uninstall_app, register_installed_app, deactivate_device,
\* create_log, update_user_preferences, update_student_info or
\* update_parent_profile made by user U leaves the UserApp, UserDevice, Log,
\* UserPreference, StudentInfo and ParentInfo rows of every other user as they
\* were, and create_log for a device not linked to U answers 403 and stores
\* nothing.
C28_MutationsTouchOwnRowsOnly ==
    [][\A caller \in Callers :
         /\ MutationBy(caller)
               => \A other \in users :
                     other.id # caller.id => OwnedRows(other.id)' = OwnedRows(other.id)
         /\ (CreateLog(caller, 1, 0, 1, FALSE) /\ ~LinkedTo(caller.id, 1))
               => (resp'.status = "403" /\ logs' = logs)
      ]_vars

\* one account has just uninstalled an app that the other still has active,
\* after both changed their profile rows and the other logged activity
C28_Witness ==
    /\ resp.op = "uninstall_app" /\ resp.status = "200"
    /\ \E other \in users :
          /\ other.id # resp.caller
          /\ \E ua \in userApps : ua.user_id = other.id /\ ua.app_id = resp.app_id
                                    /\ ua.is_active
          /\ \E l \in logs : l.user_id = other.id
    /\ \E si \in studentInfo : si.father # 0
    /\ \E pi \in parentInfo : pi.address # None

(***************************************************************************)
(* OTP registration                                                        *)
(***************************************************************************)
\* the phones for which the step creates an account
AccountCreatedFor(phone) ==
    \E a \in accounts' \ accounts : a.phone_number = phone

\* C29: an account for phone P is created only if a verify_otp call for P
\* with the OTP of the most recent register call for P has succeeded since
\* that register call.
C29_AccountNeedsVerifiedOtp ==
    [][\A phone \in Phones : AccountCreatedFor(phone) => otpVerified[phone]]_vars

\* the age of the record of the phone; no record has no age
OtpAge(phone) == otpTime - otp_store[phone].timestamp

\* C30: once the record of a phone is older than OTP_EXPIRY_SECONDS, neither
\* verify_otp nor set_password for that phone succeeds, and no account is
\* created from it.
C30_ExpiredOtpUnusable ==
    [][\A phone \in Phones :
         (otp_store[phone] # NoOtp /\ OtpAge(phone) > OTP_EXPIRY_SECONDS)
            => /\ ~AccountCreatedFor(phone)
               /\ ~(/\ resp'.op \in {"verify_otp", "set_password"}
                     /\ resp'.phone_number = phone
                     /\ resp'.status = "200")
      ]_vars
====
